---- MODULE Spec2Model ----
(***************************************************************************)
(* Model of the subscription modal CloudSubscribeWithLoad                  *)
(* (src/components/cloud_subscribe_with_loading_modal/index.tsx).          *)
(*                                                                         *)
(* Time is a millisecond clock `now`.  A request issued at time t with     *)
(* latency l resolves at t + l (or never).  A timer due at d fires at some *)
(* instant in d .. d + MaxLate: the event loop never runs a timer early,   *)
(* and may run it late.  The clock only stops at instants at which         *)
(* something can happen; user events may happen at any of them.            *)
(*                                                                         *)
(* The component is a function component: every render runs the function   *)
(* body again and so declares a fresh `let intervalId`.  The mount effect, *)
(* handleSubscribe, completeSubscribe and updateProgress that run are the  *)
(* closures of the first render; the handlers wired to buttons are the     *)
(* closures of the render on screen.                                       *)
(***************************************************************************)
EXTENDS Integers, Sequences, FiniteSets

\* ---------------------------------------------------------------- constants
MIN_PROCESSING_MILLISECONDS == 8000
MAX_FAKE_PROGRESS == 95

\* enum ProcessState
PROCESSING == 0
SUCCESS == 1
FAILED == 2

\* ------------------------------------------------------------------- bounds
\* a timer fires at most MaxLate ms after it is due
MaxLate == 1

\* ------------------------------------------------------------------ helpers
None == -1
Never == -2

\* values of a `let intervalId` variable
Undefined == "undefined"
Handle == "interval"

\* what the subscription request can resolve to: a boolean or an error object
Results == {"true", "false", "error"}

TypeOf(result) == IF result \in {"true", "false"} THEN "boolean" ELSE "object"

\* period handed to setInterval, as the integer number of ms the timer uses
Period == MIN_PROCESSING_MILLISECONDS \div MAX_FAKE_PROGRESS

SubscribeLatencies ==
    {MIN_PROCESSING_MILLISECONDS \div 3, MIN_PROCESSING_MILLISECONDS - 1,
     MIN_PROCESSING_MILLISECONDS, Never}

ArchiveLatencies ==
    {0, MIN_PROCESSING_MILLISECONDS \div 3}

MinOf(S) == CHOOSE x \in S : \A y \in S : x <= y

Max(a, b) == IF a >= b THEN a ELSE b

VARIABLES
    now,              \* the clock, ms
    mounted,          \* the component is mounted
    modalOpen,        \* isModalOpen(state, CLOUD_SUBSCRIBE_WITH_LOADING_MODAL)
    teamToKeep,       \* props.teamToKeep is given
    render,           \* number of the render on screen (1 = first render)
    intervalId,       \* the `let intervalId` of the first render
    processingState,  \* useState(ProcessState.PROCESSING)
    error,            \* useState(false)
    progress,         \* progress.current
    intervalDue,      \* next due time of the setInterval timer, or None
    timeoutDue,       \* due time of the setTimeout(completeSubscribe), or None
    pc,               \* position of handleSubscribe
    start,            \* `start` of handleSubscribe
    reqDue,           \* time at which the awaited request resolves, or Never
    productUpdated,   \* what the subscription request resolved to
    dispatched,       \* actions handed to dispatch, in order
    onBackCalls,      \* calls of props.onBack
    onCloseCalls,     \* calls of props.onClose
    ticks,            \* calls of updateProgress
    reachedMax,       \* progress has reached MAX_FAKE_PROGRESS
    ticksAfterMax,    \* calls of updateProgress made after reachedMax
    resolvedAt,       \* clock when the subscription request resolved
    successAt,        \* clock when completeSubscribe ran
    externalCalls,    \* dispatches and prop callbacks, in call order
    \* the post renderer OpenPricingModalPost (src/unnamed/part_000)
    post,             \* props.post.props: trial flag and requested_features
    rpc,              \* position of the render
    featureIndex,     \* number of keys of requested_features rendered so far
    allProfessional,  \* `let allProfessional`
    customMessageBody, \* feature and plan of every feature message pushed
    rendered,         \* requester text of the feature rendered last
    buttons           \* the button set returned by renderButtons

modalVars == <<now, mounted, modalOpen, teamToKeep, render, intervalId,
               processingState, error, progress, intervalDue, timeoutDue, pc,
               start, reqDue, productUpdated, dispatched, onBackCalls,
               onCloseCalls, ticks, reachedMax, ticksAfterMax, resolvedAt,
               successAt, externalCalls>>

postVars == <<post, rpc, featureIndex, allProfessional, customMessageBody,
              rendered, buttons>>

vars == <<modalVars, postVars>>

userVars == <<onBackCalls, onCloseCalls, modalOpen>>
histVars == <<ticks, reachedMax, ticksAfterMax>>

\* no post is being rendered
NoText == [requests |-> <<>>, userIds |-> <<>>, userNames |-> <<>>,
           collapsed |-> FALSE, text |-> <<>>]

PostIdle ==
    /\ post = [trial |-> "absent", given |-> FALSE, keys |-> <<>>]
    /\ rpc = "idle"
    /\ featureIndex = 0
    /\ allProfessional = TRUE
    /\ customMessageBody = <<>>
    /\ rendered = NoText
    /\ buttons = "none"

ModalInit ==
    /\ now = 0
    /\ mounted = TRUE
    /\ modalOpen = TRUE
    /\ teamToKeep \in BOOLEAN
    /\ render = 1
    /\ intervalId = Undefined
    /\ processingState = PROCESSING
    /\ error = FALSE
    /\ progress = 0
    /\ intervalDue = None
    /\ timeoutDue = None
    /\ pc = "init"
    /\ start = None
    /\ reqDue = Never
    /\ productUpdated = "pending"
    /\ dispatched = <<>>
    /\ onBackCalls = 0
    /\ onCloseCalls = 0
    /\ ticks = 0
    /\ reachedMax = FALSE
    /\ ticksAfterMax = 0
    /\ resolvedAt = None
    /\ successAt = None
    /\ externalCalls = <<>>

Init == ModalInit /\ PostIdle

\* ----------------------------------------------------------------- timers
\* clearInterval(id): cancels the interval only when id is its handle
ClearInterval(id) == IF id = Handle THEN None ELSE intervalDue

\* the `intervalId` seen by the closures of render r
IntervalIdOfRender(r) == IF r = 1 THEN intervalId ELSE Undefined

\* a state setter re-renders a mounted component
Rerender == IF mounted THEN render + 1 ELSE render

\* -------------------------------------------------------- handleSubscribe
NeedsDelayFlipped(millisecondsElapsed) ==
    millisecondsElapsed > MIN_PROCESSING_MILLISECONDS

NeedsDelayInclusive(millisecondsElapsed) ==
    millisecondsElapsed <= MIN_PROCESSING_MILLISECONDS

NeedsDelay(millisecondsElapsed) ==
    millisecondsElapsed < MIN_PROCESSING_MILLISECONDS

RemainingDelayWhole(millisecondsElapsed) == MIN_PROCESSING_MILLISECONDS

RemainingDelay(millisecondsElapsed) ==
    MIN_PROCESSING_MILLISECONDS - millisecondsElapsed

IsFailureInverted(result) == TypeOf(result) = "boolean"

IsFailure(result) == TypeOf(result) # "boolean"

completeSubscribeNoProgress ==
    /\ intervalDue' = ClearInterval(intervalId)
    /\ processingState' = SUCCESS
    /\ progress' = progress
    /\ render' = Rerender
    /\ successAt' = now
    /\ reachedMax' = TRUE

completeSubscribe ==
    /\ intervalDue' = ClearInterval(intervalId)
    /\ processingState' = SUCCESS
    /\ progress' = 100
    /\ render' = Rerender
    /\ successAt' = now
    /\ reachedMax' = TRUE

handleSubscribeSucceededNoTimer ==
    LET millisecondsElapsed == now - start IN
    IF NeedsDelay(millisecondsElapsed)
    THEN UNCHANGED <<timeoutDue, intervalDue, processingState, progress,
                     render, successAt, reachedMax>>
    ELSE /\ completeSubscribe
         /\ UNCHANGED timeoutDue

\* lines 84-93: the success path of handleSubscribe
handleSubscribeSucceeded ==
    LET millisecondsElapsed == now - start IN
    IF NeedsDelay(millisecondsElapsed)
    THEN /\ timeoutDue' = now + RemainingDelay(millisecondsElapsed)
         /\ UNCHANGED <<intervalDue, processingState, progress, render,
                        successAt, reachedMax>>
    ELSE /\ completeSubscribe
         /\ UNCHANGED timeoutDue

handleSubscribeFailedNoReturn ==
    /\ error' = TRUE
    /\ LET millisecondsElapsed == now - start IN
       IF NeedsDelay(millisecondsElapsed)
       THEN /\ timeoutDue' = now + RemainingDelay(millisecondsElapsed)
            /\ processingState' = FAILED
            /\ render' = Rerender
            /\ UNCHANGED <<intervalDue, progress, successAt, reachedMax>>
       ELSE /\ completeSubscribe
            /\ UNCHANGED timeoutDue

\* lines 78-82: the failure path of handleSubscribe
handleSubscribeFailed ==
    /\ error' = TRUE
    /\ processingState' = FAILED
    /\ render' = Rerender
    /\ UNCHANGED <<intervalDue, timeoutDue, progress, successAt, reachedMax>>

\* the actions handed to dispatch in this step
NewDispatches == SubSeq(dispatched', Len(dispatched) + 1, Len(dispatched'))

handleSubscribeStartAlwaysArchive(log) ==
    /\ start' = now
    /\ pc' = "awaitArchive"
    /\ \E l \in ArchiveLatencies : reqDue' = now + l
    /\ dispatched' = Append(log, "archiveAllTeamsExcept")

\* lines 66-75 up to the first await, called from the effect with the
\* dispatch log `log`
handleSubscribeStart(log) ==
    /\ start' = now
    /\ IF teamToKeep
       THEN /\ pc' = "awaitArchive"
            /\ \E l \in ArchiveLatencies : reqDue' = now + l
            /\ dispatched' = Append(log, "archiveAllTeamsExcept")
       ELSE /\ pc' = "awaitSubscribe"
            /\ \E l \in SubscribeLatencies :
                   reqDue' = IF l = Never THEN Never ELSE now + l
            /\ dispatched' = Append(log, "subscribeCloudSubscription")

\* the mount effect
MountEffect ==
    /\ pc = "init"
    /\ handleSubscribeStart(IF teamToKeep
                            THEN Append(dispatched, "selectTeam")
                            ELSE dispatched)
    /\ intervalId' = Handle
    /\ intervalDue' = now + Period
    /\ UNCHANGED <<now, mounted, teamToKeep, render, processingState, error,
                   progress, timeoutDue, productUpdated, resolvedAt,
                   successAt>>
    /\ UNCHANGED userVars
    /\ UNCHANGED histVars
    /\ externalCalls' = externalCalls \o NewDispatches
    /\ UNCHANGED postVars

\* archiveAllTeamsExcept resolves: handleSubscribe issues the subscription
ArchiveResolved ==
    /\ pc = "awaitArchive"
    /\ now = reqDue
    /\ pc' = "awaitSubscribe"
    /\ \E l \in SubscribeLatencies :
           reqDue' = IF l = Never THEN Never ELSE now + l
    /\ dispatched' = Append(dispatched, "subscribeCloudSubscription")
    /\ UNCHANGED <<now, mounted, teamToKeep, render, intervalId,
                   processingState, error, progress, intervalDue, timeoutDue,
                   start, productUpdated, resolvedAt, successAt>>
    /\ UNCHANGED userVars
    /\ UNCHANGED histVars
    /\ externalCalls' = externalCalls \o NewDispatches
    /\ UNCHANGED postVars

\* subscribeCloudSubscription resolves: the rest of handleSubscribe
SubscribeResolved ==
    /\ pc = "awaitSubscribe"
    /\ now = reqDue
    /\ \E result \in Results :
          /\ productUpdated' = result
          /\ IF IsFailure(result)
             THEN handleSubscribeFailed
             ELSE handleSubscribeSucceeded /\ UNCHANGED error
    /\ pc' = "done"
    /\ reqDue' = Never
    /\ resolvedAt' = now
    /\ UNCHANGED <<now, mounted, teamToKeep, intervalId, start, dispatched,
                   ticks, ticksAfterMax>>
    /\ UNCHANGED userVars
    /\ UNCHANGED <<externalCalls, postVars>>

\* the setTimeout of line 87 fires
CompletionTimerFires ==
    /\ timeoutDue # None
    /\ now >= timeoutDue
    /\ timeoutDue' = None
    /\ completeSubscribe
    /\ UNCHANGED <<now, mounted, teamToKeep, intervalId, error, pc, start,
                   reqDue, productUpdated, dispatched, ticks, ticksAfterMax,
                   resolvedAt>>
    /\ UNCHANGED userVars
    /\ UNCHANGED <<externalCalls, postVars>>

\* --------------------------------------------------------- updateProgress
NextProgressUnclamped(p) == p + 3

NextProgressByFour(p) ==
    IF p + 4 > MAX_FAKE_PROGRESS THEN MAX_FAKE_PROGRESS ELSE p + 4

NextProgress(p) ==
    IF p + 3 > MAX_FAKE_PROGRESS THEN MAX_FAKE_PROGRESS ELSE p + 3

\* the setInterval timer fires; the callback is the first render's closure
updateProgress ==
    /\ intervalDue # None
    /\ now >= intervalDue
    /\ ticks' = ticks + 1
    /\ ticksAfterMax' = IF reachedMax THEN ticksAfterMax + 1 ELSE ticksAfterMax
    /\ IF progress >= MAX_FAKE_PROGRESS
       THEN /\ intervalDue' = ClearInterval(intervalId)
            /\ UNCHANGED <<progress, reachedMax>>
       ELSE /\ progress' = NextProgress(progress)
            /\ intervalDue' = now + Period
            /\ reachedMax' = (reachedMax \/ progress' >= MAX_FAKE_PROGRESS)
    /\ UNCHANGED <<now, mounted, teamToKeep, render, intervalId,
                   processingState, error, timeoutDue, pc, start, reqDue,
                   productUpdated, dispatched, resolvedAt, successAt>>
    /\ UNCHANGED userVars
    /\ UNCHANGED <<externalCalls, postVars>>

\* ------------------------------------------------------------ user events
handleGoBackNoReset ==
    /\ mounted /\ modalOpen
    /\ processingState = FAILED
    /\ intervalDue' = ClearInterval(IntervalIdOfRender(render))
    /\ progress' = progress
    /\ error' = FALSE
    /\ processingState' = PROCESSING
    /\ render' = Rerender
    /\ onBackCalls' = onBackCalls + 1
    /\ UNCHANGED <<now, mounted, modalOpen, teamToKeep, intervalId,
                   timeoutDue, pc, start, reqDue, productUpdated, dispatched,
                   onCloseCalls, resolvedAt, successAt>>
    /\ UNCHANGED histVars
    /\ externalCalls' = Append(externalCalls, "onBack")
    /\ UNCHANGED postVars

handleGoBackKeepsError ==
    /\ mounted /\ modalOpen
    /\ processingState = FAILED
    /\ intervalDue' = ClearInterval(IntervalIdOfRender(render))
    /\ progress' = 0
    /\ error' = error
    /\ processingState' = PROCESSING
    /\ render' = Rerender
    /\ onBackCalls' = onBackCalls + 1
    /\ UNCHANGED <<now, mounted, modalOpen, teamToKeep, intervalId,
                   timeoutDue, pc, start, reqDue, productUpdated, dispatched,
                   onCloseCalls, resolvedAt, successAt>>
    /\ UNCHANGED histVars
    /\ externalCalls' = Append(externalCalls, "onBack")
    /\ UNCHANGED postVars

\* the button of the FAILED page
handleGoBack ==
    /\ mounted /\ modalOpen
    /\ processingState = FAILED
    /\ intervalDue' = ClearInterval(IntervalIdOfRender(render))
    /\ progress' = 0
    /\ error' = FALSE
    /\ processingState' = PROCESSING
    /\ render' = Rerender
    /\ onBackCalls' = onBackCalls + 1
    /\ UNCHANGED <<now, mounted, modalOpen, teamToKeep, intervalId,
                   timeoutDue, pc, start, reqDue, productUpdated, dispatched,
                   onCloseCalls, resolvedAt, successAt>>
    /\ UNCHANGED histVars
    /\ externalCalls' = Append(externalCalls, "onBack")
    /\ UNCHANGED postVars

handleCloseResets ==
    /\ mounted /\ modalOpen
    /\ dispatched' = Append(dispatched, "closeModal")
    /\ modalOpen' = FALSE
    /\ onCloseCalls' = onCloseCalls + 1
    /\ progress' = 0
    /\ UNCHANGED <<now, mounted, teamToKeep, render, intervalId,
                   processingState, error, intervalDue, timeoutDue,
                   pc, start, reqDue, productUpdated, onBackCalls, resolvedAt,
                   successAt>>
    /\ UNCHANGED histVars
    /\ externalCalls' = externalCalls \o <<"closeModal", "onClose">>
    /\ UNCHANGED postVars

\* onClose of the FullScreenModal and the buttons of the success page
handleClose ==
    /\ mounted /\ modalOpen
    /\ dispatched' = Append(dispatched, "closeModal")
    /\ modalOpen' = FALSE
    /\ onCloseCalls' = onCloseCalls + 1
    /\ UNCHANGED <<now, mounted, teamToKeep, render, intervalId,
                   processingState, error, progress, intervalDue, timeoutDue,
                   pc, start, reqDue, productUpdated, onBackCalls, resolvedAt,
                   successAt>>
    /\ UNCHANGED histVars
    /\ externalCalls' = externalCalls \o <<"closeModal", "onClose">>
    /\ UNCHANGED postVars

\* the component is removed; the effect returns no cleanup
Unmount ==
    /\ mounted
    /\ pc # "init"
    /\ mounted' = FALSE
    /\ UNCHANGED <<now, modalOpen, teamToKeep, render, intervalId,
                   processingState, error, progress, intervalDue, timeoutDue,
                   pc, start, reqDue, productUpdated, dispatched, onBackCalls,
                   onCloseCalls, resolvedAt, successAt>>
    /\ UNCHANGED histVars
    /\ UNCHANGED <<externalCalls, postVars>>

\* ------------------------------------------------------------------- time
TimerDues ==
    (IF intervalDue # None THEN {intervalDue} ELSE {})
        \cup (IF timeoutDue # None THEN {timeoutDue} ELSE {})

RequestDues ==
    IF pc \in {"awaitArchive", "awaitSubscribe"} /\ reqDue # Never
    THEN {reqDue} ELSE {}

Deadlines == {d + MaxLate : d \in TimerDues} \cup RequestDues

\* the clock moves to the next instant at which something can happen
Advance ==
    /\ Deadlines # {}
    /\ \E t \in Max(now + 1, MinOf(TimerDues \cup RequestDues))
                    .. MinOf(Deadlines) : now' = t
    /\ UNCHANGED <<mounted, teamToKeep, render, intervalId, processingState,
                   error, progress, intervalDue, timeoutDue, pc, start,
                   reqDue, productUpdated, dispatched, resolvedAt, successAt>>
    /\ UNCHANGED userVars
    /\ UNCHANGED histVars
    /\ UNCHANGED <<externalCalls, postVars>>

Next ==
    \/ MountEffect
    \/ ArchiveResolved
    \/ SubscribeResolved
    \/ CompletionTimerFires
    \/ updateProgress
    \/ handleGoBack
    \/ handleClose
    \/ Unmount
    \/ Advance

Spec == Init /\ [][Next]_vars

\* what the event loop runs by itself: effects, promise continuations, timers
EventLoopStep ==
    \/ MountEffect
    \/ ArchiveResolved
    \/ SubscribeResolved
    \/ CompletionTimerFires
    \/ updateProgress
    \/ Advance

\* the event loop does not stop while a task is ready or a timer pending
FairSpec == Spec /\ WF_vars(EventLoopStep)

\* ======================================================================
\* The post renderer OpenPricingModalPost (src/unnamed/part_000).
\* Texts are sequences of characters.  The keys of requested_features are
\* rendered one per step, in Object.keys order; the request list of a key is
\* drawn when the key is rendered.
\* ======================================================================

\* ------------------------------------------------------------------- bounds
\* a post has at most MaxFeatures keys in requested_features
MaxFeatures == 2
\* every request list of at most MaxNames requests is tried
MaxNames == 2
\* one request list of every length up to MaxRequests is tried
MaxRequests == 6

\* ---------------------------------------------------------------- constants
\* requests.length >= 5
CountThreshold == 5

\* MinimumPlansForFeature
Professional == "Professional plan"
Enterprise == "Enterprise plan"

\* NonAdminPaidFeatures, and a feature name that is none of them
Features == {"GUEST_ACCOUNTS", "CREATE_MULTIPLE_TEAMS",
             "ALL_ENTERPRISE_FEATURES", "CUSTOM_USER_GROUPS", "OTHER_FEATURE"}

\* the default messages handed to formatMessage
AtUnknown == <<"@", "u", "n", "k", "n", "o", "w", "n">>
AndText == <<"a", "n", "d", " ">>
MembersText == <<" ", "m", "e", "m", "b", "e", "r", "s">>
\* String(undefined)
UndefinedText == <<"u", "n", "d", "e", "f", "i", "n", "e", "d">>

Digits == <<"0", "1", "2", "3", "4", "5", "6", "7", "8", "9">>

\* {members: requests.length} formatted as a decimal number
RECURSIVE DecimalString(_)
DecimalString(n) ==
    IF n < 10 THEN <<Digits[n + 1]>>
    ELSE DecimalString(n \div 10) \o <<Digits[(n % 10) + 1]>>

\* ------------------------------------------------------------------- inputs
\* the user directory: ids of the users that have a profile
userProfiles ==
    [id \in {"u1", "u2"} |->
        [username |-> IF id = "u1" THEN <<"a", "l">> ELSE <<"b">>]]

UserIds == {"u1", "u2", "ghost"}

UserCycle == <<"u1", "ghost", "u2">>

Request(id) == [user_id |-> id]

RequestLists ==
    UNION {{[i \in 1..n |-> Request(f[i])] : f \in [1..n -> UserIds]} :
               n \in 0..MaxNames}
    \cup {[i \in 1..n |-> Request(UserCycle[(i % 3) + 1])] :
               n \in (MaxNames + 1)..MaxRequests}

KeyLists ==
    UNION {{k \in [1..n -> Features] :
                \A i, j \in 1..n : i # j => k[i] # k[j]} :
               n \in 0..MaxFeatures}

Posts ==
    {[trial |-> t, given |-> FALSE, keys |-> <<>>] :
         t \in {"absent", "true", "false"}}
    \cup {[trial |-> t, given |-> TRUE, keys |-> k] :
         t \in {"absent", "true", "false"}, k \in KeyLists}

\* --------------------------------------------------------- pure functions
\* getUserIdsForUsersThatRequestedFeature: forEach request push its user_id
RECURSIVE getUserIdsForUsersThatRequestedFeature(_)
getUserIdsForUsersThatRequestedFeature(requests) ==
    IF requests = <<>> THEN <<>>
    ELSE <<requests[1].user_id>>
             \o getUserIdsForUsersThatRequestedFeature(Tail(requests))

UserNameNoPlaceholder(userId) ==
    IF userId \notin DOMAIN userProfiles
    THEN <<"@">> \o UndefinedText
    ELSE <<"@">> \o userProfiles[userId].username

\* the name pushed for one user id (lines 90-95)
UserName(userId) ==
    IF userId \notin DOMAIN userProfiles
    THEN AtUnknown
    ELSE <<"@">> \o userProfiles[userId].username

RECURSIVE UserNames(_)
UserNames(userIds) ==
    IF userIds = <<>> THEN <<>>
    ELSE <<UserName(userIds[1])>> \o UserNames(Tail(userIds))

getUserNamesForUsersThatRequestedFeature(requests) ==
    UserNames(getUserIdsForUsersThatRequestedFeature(requests))

\* Array.prototype.join
RECURSIVE Join(_, _)
Join(texts, separator) ==
    IF texts = <<>> THEN <<>>
    ELSE IF Len(texts) = 1 THEN texts[1]
    ELSE texts[1] \o separator \o Join(Tail(texts), separator)

\* .replace(/,([^,]*)$/, '$1'): drops the last comma of the text, if any
RemoveLastComma(text) ==
    LET commas == {i \in DOMAIN text : text[i] = ","} IN
    IF commas = {} THEN text
    ELSE LET last == CHOOSE i \in commas : \A j \in commas : j <= i IN
         SubSeq(text, 1, last - 1) \o SubSeq(text, last + 1, Len(text))

\* lines 109-121: the names as one text
RenderNames(users) ==
    IF Len(users) = 1 THEN users[1]
    ELSE LET lastUser == IF users = <<>> THEN UndefinedText
                         ELSE users[Len(users)]
             rest == IF users = <<>> THEN <<>>
                     ELSE SubSeq(users, 1, Len(users) - 1)
         IN RemoveLastComma(Join(Append(rest, AndText \o lastUser),
                                 <<",", " ">>))

\* line 102
Collapses(requests) == Len(requests) >= CountThreshold

renderUsersThatRequestedFeature(requests) ==
    IF Collapses(requests)
    THEN [requests |-> requests,
          userIds |-> getUserIdsForUsersThatRequestedFeature(requests),
          userNames |-> <<>>,
          collapsed |-> TRUE,
          text |-> DecimalString(Len(requests)) \o MembersText]
    ELSE [requests |-> requests,
          userIds |-> getUserIdsForUsersThatRequestedFeature(requests),
          userNames |-> getUserNamesForUsersThatRequestedFeature(requests),
          collapsed |-> FALSE,
          text |-> RenderNames(
                       getUserNamesForUsersThatRequestedFeature(requests))]

mapFeatureToPlanLastWins(feature, allProf) ==
    IF feature \in {"ALL_ENTERPRISE_FEATURES", "CUSTOM_USER_GROUPS"}
    THEN [plan |-> Enterprise, allProfessional |-> FALSE]
    ELSE [plan |-> Professional, allProfessional |-> TRUE]

\* the plan of a feature and the value it leaves in allProfessional
mapFeatureToPlan(feature, allProf) ==
    CASE feature \in {"GUEST_ACCOUNTS", "CREATE_MULTIPLE_TEAMS"}
           -> [plan |-> Professional, allProfessional |-> allProf]
      [] feature \in {"ALL_ENTERPRISE_FEATURES", "CUSTOM_USER_GROUPS"}
           -> [plan |-> Enterprise, allProfessional |-> FALSE]
      [] OTHER
           -> [plan |-> Professional, allProfessional |-> allProf]

renderButtons(wasTrialRequest, allProf) ==
    IF wasTrialRequest THEN "trial"
    ELSE IF allProf THEN "professional"
    ELSE "enterprise"

\* ------------------------------------------------------------------ render
RenderInit ==
    /\ ModalInit
    /\ post \in Posts
    /\ rpc = "features"
    /\ featureIndex = 0
    /\ allProfessional = TRUE
    /\ customMessageBody = <<>>
    /\ rendered = NoText
    /\ buttons = "none"

\* one iteration of the loop over Object.keys(requestFeatures)
RenderFeature ==
    /\ rpc = "features"
    /\ post.given
    /\ featureIndex < Len(post.keys)
    /\ LET featureName == post.keys[featureIndex + 1]
           mapped == mapFeatureToPlan(featureName, allProfessional)
       IN /\ allProfessional' = mapped.allProfessional
          /\ customMessageBody' =
                 Append(customMessageBody,
                        [feature |-> featureName, plan |-> mapped.plan])
    /\ \E requests \in RequestLists :
           rendered' = renderUsersThatRequestedFeature(requests)
    /\ featureIndex' = featureIndex + 1
    /\ UNCHANGED <<post, rpc, buttons, modalVars>>

\* the loop is over (or there are no requested_features): the buttons
RenderButtons ==
    /\ rpc = "features"
    /\ ~post.given \/ featureIndex = Len(post.keys)
    /\ buttons' = renderButtons(post.trial = "true", allProfessional)
    /\ rpc' = "done"
    /\ UNCHANGED <<post, featureIndex, allProfessional, customMessageBody,
                   rendered, modalVars>>

RenderNext ==
    \/ RenderFeature
    \/ RenderButtons

RenderSpec == RenderInit /\ [][RenderNext]_vars

TypeOK ==
    /\ processingState \in {PROCESSING, SUCCESS, FAILED}
    /\ progress \in 0..100
    /\ error \in BOOLEAN
    /\ pc \in {"init", "awaitArchive", "awaitSubscribe", "done"}
    /\ productUpdated \in Results \cup {"pending"}
\* ------------------------------------------------------------ observations
IsBoolean(v) == v \in {"true", "false"}

\* the subscription request resolved to a boolean before the minimum time
ResolvedEarly ==
    /\ IsBoolean(productUpdated)
    /\ resolvedAt - start < MIN_PROCESSING_MILLISECONDS

SubscribeRequests ==
    Cardinality({i \in DOMAIN dispatched :
                     dispatched[i] = "subscribeCloudSubscription"})

\* this step is the one in which the subscription request resolves
Resolves == productUpdated = "pending" /\ productUpdated' # "pending"

\* ------------------------------------------------------------------ claims

\* C1: whenever processingState is SUCCESS, at least
\* MIN_PROCESSING_MILLISECONDS have elapsed since handleSubscribe recorded
\* its start time, whatever the latencies of the requests were.
C1_MinimumDuration ==
    processingState = SUCCESS
        => now - start >= MIN_PROCESSING_MILLISECONDS

C1_Witness ==
    /\ processingState = SUCCESS
    /\ ResolvedEarly
    /\ resolvedAt > start

\* C2: when the subscription request resolves to a non-boolean the step sets
\* the error flag and FAILED, and no state of that attempt is SUCCESS.
C2_NonBooleanFails ==
    /\ [][(Resolves /\ ~IsBoolean(productUpdated'))
            => (error' = TRUE /\ processingState' = FAILED)]_vars
    /\ [](productUpdated = "error" => processingState # SUCCESS)

C2_Witness ==
    /\ productUpdated = "error"
    /\ processingState = FAILED
    /\ error = TRUE
    /\ now > resolvedAt
    /\ progress = MAX_FAKE_PROGRESS

\* C3 as stated: progress never decreases over any event, is at most
\* MAX_FAKE_PROGRESS before completeSubscribe runs, and is 100 at SUCCESS.
C3_Original ==
    /\ [][progress' >= progress]_vars
    /\ [](successAt = None => progress <= MAX_FAKE_PROGRESS)
    /\ [](processingState = SUCCESS => progress = 100)

\* C3 amended: progress never decreases over any event other than the
\* go-back action (which resets it to 0), is at most MAX_FAKE_PROGRESS before
\* completeSubscribe runs, and is 100 at SUCCESS.
C3_Amended ==
    /\ [][onBackCalls' = onBackCalls => progress' >= progress]_vars
    /\ [][onBackCalls' # onBackCalls => progress' = 0]_vars
    /\ [](successAt = None => progress <= MAX_FAKE_PROGRESS)
    /\ [](processingState = SUCCESS => progress = 100)

C3_Witness ==
    /\ onBackCalls = 1
    /\ progress = MAX_FAKE_PROGRESS
    /\ ticks > 40

\* C4 as stated: after a successful resolution at elapsed time T below the
\* minimum, the SUCCESS transition happens exactly
\* MIN_PROCESSING_MILLISECONDS after the start.
C4_Original ==
    (ResolvedEarly /\ successAt # None)
        => successAt = start + MIN_PROCESSING_MILLISECONDS

\* C4 amended: after a successful resolution at elapsed time T below the
\* minimum, completeSubscribe is not run at resolution but scheduled with
\* delay MIN_PROCESSING_MILLISECONDS - T, so the timer is due exactly
\* MIN_PROCESSING_MILLISECONDS after the start; the SUCCESS transition happens
\* when the timer fires, never before that instant and at most the timer's
\* lateness after it.
C4_Amended ==
    /\ [][(Resolves /\ IsBoolean(productUpdated')
             /\ now - start < MIN_PROCESSING_MILLISECONDS)
            => /\ processingState' = PROCESSING
               /\ successAt' = None
               /\ timeoutDue' = start + MIN_PROCESSING_MILLISECONDS]_vars
    /\ []((ResolvedEarly /\ successAt # None)
            => /\ successAt >= start + MIN_PROCESSING_MILLISECONDS
               /\ successAt <= start + MIN_PROCESSING_MILLISECONDS + MaxLate)

C4_Witness ==
    /\ ResolvedEarly
    /\ resolvedAt > start
    /\ successAt > start + MIN_PROCESSING_MILLISECONDS
    /\ processingState = SUCCESS

\* C5: when the subscription request resolves to a boolean at an elapsed time
\* of at least MIN_PROCESSING_MILLISECONDS, completeSubscribe runs in the
\* resolution step itself and no completion timer is scheduled.
C5_ImmediateCompletion ==
    [][(Resolves /\ IsBoolean(productUpdated')
          /\ now - start >= MIN_PROCESSING_MILLISECONDS)
         => /\ processingState' = SUCCESS
            /\ progress' = 100
            /\ successAt' = now
            /\ timeoutDue' = None
            /\ intervalDue' = None]_vars

C5_Witness ==
    /\ IsBoolean(productUpdated)
    /\ resolvedAt - start >= MIN_PROCESSING_MILLISECONDS
    /\ successAt = resolvedAt
    /\ processingState = SUCCESS

\* C6: the go-back action leaves progress 0, the error flag false and
\* PROCESSING, calls onBack once and does not issue the subscription request.
C6_GoBackResets ==
    [][onBackCalls' # onBackCalls
         => /\ progress' = 0
            /\ error' = FALSE
            /\ processingState' = PROCESSING
            /\ onBackCalls' = onBackCalls + 1
            /\ dispatched' = dispatched
            /\ pc' = pc]_vars

C6_Witness ==
    /\ onBackCalls = 1
    /\ progress = 0
    /\ ticks > 0
    /\ processingState = PROCESSING
    /\ SubscribeRequests = 1

\* C7: once FAILED, only the go-back action changes processingState or the
\* error flag, and the subscription request is issued at most once.
C7_FailedIsTerminal ==
    /\ [][(processingState = FAILED /\ onBackCalls' = onBackCalls)
            => (processingState' = FAILED /\ error' = error)]_vars
    /\ [][processingState = FAILED
            => SubscribeRequests' = SubscribeRequests]_vars
    /\ [](SubscribeRequests <= 1)

C7_Witness ==
    /\ processingState = FAILED
    /\ error = TRUE
    /\ reachedMax
    /\ intervalDue = None
    /\ now > resolvedAt

\* C8: completeSubscribe stops the progress timer, sets progress to 100 and
\* SUCCESS; from then on processingState stays SUCCESS, progress stays 100
\* and no tick runs.
C8_CompletionAbsorbing ==
    /\ [][successAt' # successAt
            => /\ intervalDue' = None
               /\ progress' = 100
               /\ processingState' = SUCCESS]_vars
    /\ [][processingState = SUCCESS
            => /\ processingState' = SUCCESS
               /\ progress' = 100
               /\ ticks' = ticks]_vars

C8_Witness ==
    /\ processingState = SUCCESS
    /\ progress = 100
    /\ onCloseCalls = 1
    /\ mounted = FALSE

\* C9: after the component is unmounted neither the progress timer nor the
\* completion timer is active.
C9_TeardownClearsTimers ==
    mounted = FALSE => (intervalDue = None /\ timeoutDue = None)

\* C10: once progress has reached MAX_FAKE_PROGRESS at most one further
\* tick fires.
C10_TicksStopAtMax ==
    ticksAfterMax <= 1
\* C13: the subscription request is issued at most once, and exactly once as
\* soon as handleSubscribe is past the archive step; with a team to keep the
\* dispatches are selectTeam, archiveAllTeamsExcept, subscribeCloudSubscription
\* in that order, the last one only after the archive has resolved; without a
\* team to keep neither team action is dispatched.
IsRequestDispatch(a) == a # "closeModal"

\* the dispatches made by the effect and handleSubscribe, in order
RequestDispatches == SelectSeq(dispatched, IsRequestDispatch)

C13_IssueOrder ==
    /\ SubscribeRequests <= 1
    /\ pc \in {"awaitSubscribe", "done"} => SubscribeRequests = 1
    /\ pc \in {"init", "awaitArchive"} => SubscribeRequests = 0
    /\ (teamToKeep /\ pc = "awaitArchive")
         => RequestDispatches = <<"selectTeam", "archiveAllTeamsExcept">>
    /\ (teamToKeep /\ pc \in {"awaitSubscribe", "done"})
         => RequestDispatches = <<"selectTeam", "archiveAllTeamsExcept",
                                  "subscribeCloudSubscription">>
    /\ (~teamToKeep /\ pc # "init")
         => RequestDispatches = <<"subscribeCloudSubscription">>
    /\ pc = "init" => RequestDispatches = <<>>

C13_Witness ==
    /\ teamToKeep
    /\ pc = "awaitSubscribe"
    /\ now > start
    /\ RequestDispatches = <<"selectTeam", "archiveAllTeamsExcept",
                             "subscribeCloudSubscription">>

\* C16: after a go-back the progress timer is no longer active and progress
\* stays at 0.
C16_GoBackStopsTimer ==
    onBackCalls > 0 => (intervalDue = None /\ progress = 0)

\* C17: the error flag is true exactly when processingState is FAILED.
C17_ErrorIffFailed ==
    error = (processingState = FAILED)

C17_Witness ==
    /\ onBackCalls = 1
    /\ error = FALSE
    /\ processingState = PROCESSING
    /\ productUpdated = "error"

\* C18: the close action dispatches closeModal and then calls onClose, once
\* each, and changes neither processingState, progress, the error flag, the
\* request in flight nor the timers.
C18_CloseFrame ==
    [][onCloseCalls' # onCloseCalls
         => /\ onCloseCalls' = onCloseCalls + 1
            /\ dispatched' = Append(dispatched, "closeModal")
            /\ externalCalls' = externalCalls \o <<"closeModal", "onClose">>
            /\ UNCHANGED <<processingState, progress, error, pc, reqDue,
                           productUpdated, intervalDue, timeoutDue, start,
                           onBackCalls, now>>]_vars

C18_Witness ==
    /\ onCloseCalls = 1
    /\ processingState = PROCESSING
    /\ progress > 0
    /\ progress < MAX_FAKE_PROGRESS
    /\ intervalDue # None
    /\ pc = "awaitSubscribe"

\* C19: every tick adds 3 to progress, clamped at MAX_FAKE_PROGRESS: from 0
\* the counter is 3 * ticks until it is 95 at the 32nd tick, and progress is
\* always one of 0, 3, ..., 93, 95, 100.
ProgressValues == {3 * k : k \in 0..31} \cup {MAX_FAKE_PROGRESS, 100}

C19_ProgressSteps ==
    /\ progress \in ProgressValues
    /\ (onBackCalls = 0 /\ successAt = None)
         => progress = (IF ticks >= 32 THEN MAX_FAKE_PROGRESS ELSE 3 * ticks)

C19_Witness ==
    /\ ticks = 32
    /\ progress = MAX_FAKE_PROGRESS
    /\ onBackCalls = 0
    /\ successAt = None
\* C15: under fair scheduling every activation whose requests resolve
\* eventually shows SUCCESS or FAILED.
C15_EventuallyTerminal ==
    (pc = "init")
        ~> \/ processingState \in {SUCCESS, FAILED}
           \/ (pc = "awaitSubscribe" /\ reqDue = Never)

C15_Witness ==
    /\ teamToKeep
    /\ processingState = SUCCESS
    /\ successAt > resolvedAt
    /\ resolvedAt > start
\* ------------------------------------------------ claims about the renderer
\* a feature has been rendered
FeatureRendered == featureIndex > 0

EnterpriseRequested ==
    /\ post.given
    /\ \E i \in DOMAIN post.keys :
           post.keys[i] \in {"ALL_ENTERPRISE_FEATURES", "CUSTOM_USER_GROUPS"}

\* C11: the rendered button set is the trial set when the trial flag is set,
\* otherwise the enterprise-only set exactly when some key of
\* requested_features is ALL_ENTERPRISE_FEATURES or CUSTOM_USER_GROUPS,
\* otherwise the professional set.
C11_ButtonSet ==
    rpc = "done"
        => buttons = (IF post.trial = "true" THEN "trial"
                      ELSE IF EnterpriseRequested THEN "enterprise"
                      ELSE "professional")

C11_Witness ==
    /\ rpc = "done"
    /\ buttons = "enterprise"
    /\ Len(post.keys) = 2
    /\ post.keys[1] = "CUSTOM_USER_GROUPS"
    /\ post.keys[2] = "GUEST_ACCOUNTS"

\* C12: the requester text is the count "n members" exactly when n > 5.
C12_CollapseAboveFive ==
    FeatureRendered
        => /\ rendered.collapsed = (Len(rendered.requests) > 5)
           /\ rendered.collapsed
                => rendered.text
                     = DecimalString(Len(rendered.requests)) \o MembersText

\* C14: when names are rendered there is one name per request, in request
\* order: "@unknown" for a user id without a profile, "@" and the username
\* otherwise.
C14_UnknownPlaceholder ==
    (FeatureRendered /\ ~rendered.collapsed)
        => /\ Len(rendered.userNames) = Len(rendered.requests)
           /\ \A i \in DOMAIN rendered.requests :
                LET id == rendered.requests[i].user_id IN
                /\ id \in {"u1", "u2"}
                     => rendered.userNames[i]
                          = <<"@">> \o userProfiles[id].username
                /\ id = "ghost" => rendered.userNames[i] = AtUnknown

C14_Witness ==
    /\ FeatureRendered
    /\ ~rendered.collapsed
    /\ Len(rendered.requests) = 2
    /\ rendered.requests[1].user_id = "ghost"
    /\ rendered.requests[2].user_id = "u1"
    /\ rpc = "done"

\* the natural-language list of the names: "a", "a and b", "a, b and c"
NaturalList(names) ==
    IF names = <<>> THEN <<>>
    ELSE IF Len(names) = 1 THEN names[1]
    ELSE Join(SubSeq(names, 1, Len(names) - 1), <<",", " ">>)
             \o <<" ">> \o AndText \o names[Len(names)]

\* C20: every list rendered as names, the empty list included, is rendered
\* as the natural-language list of its names in request order.
C20_NaturalList ==
    (FeatureRendered /\ ~rendered.collapsed)
        => rendered.text = NaturalList(rendered.userNames)
====
